---- MODULE Spec2Model ----
(***************************************************************************)
(* Model of sync_unit_cell_params.py: the variant parameter composer       *)
(* (planned_params_for), the mismatch detector (detect_param_mismatches)   *)
(* and the synchronization orchestrator (main); and of compute_profile of  *)
(* extract_and_plot_final_geometry.py, the taper profile generator.        *)
(*                                                                         *)
(* Python strings are sequences of code points, so that str.lower(),       *)
(* str.strip() and the ordering of names are computed, not assumed.        *)
(* A Python dict is a sequence of <<key, value>> entries with unique keys, *)
(* in insertion order.                                                     *)
(***************************************************************************)
EXTENDS Integers, Sequences, FiniteSets, TLC

VARIABLES
    args,           \* parsed command line: force, dry_run, save_solved, export_name, which
    mph_avail,      \* what have_mph() answers
    final_json,     \* the canonical parameter file as read at start-up
    base_params,    \* main's base_params dict
    selected,       \* main's list of selected kinds
    i,              \* position of the for loop in selected (1-based)
    pc,             \* position of main
    planned,        \* main's planned dict
    model,          \* the model handle returned by client.load
    diffs,          \* main's diffs dict
    client_models,  \* models held in the engine's memory (loaded, not cleared)
    calls,          \* external engine calls made so far, with their outcome
    stdout,         \* lines printed so far
    result,         \* how main ended: "running", "return0", "exception"
    fails,          \* number of engine failures injected so far
    model_kind,     \* argument of planned_params_for when it is exercised alone
    params,         \* argument of compute_profile
    profile         \* what compute_profile returned or raised

vars == <<args, mph_avail, final_json, base_params, selected, i, pc, planned,
          model, diffs, client_models, calls, stdout, result, fails, model_kind,
          params, profile>>

(***************************************************************************)
(* Bounds of the model.                                                    *)
(***************************************************************************)
MaxFails == 1        \* engine operations that fail in one run
MaxBaseLen == 2      \* entries of a base dict given to planned_params_for alone
MaxPlannedLen == 2   \* entries of a planned dict given to detect_param_mismatches alone
MaxN == 2            \* largest half-width n_ext given to compute_profile

(***************************************************************************)
(* String literals of the program, as code points.                         *)
(***************************************************************************)
k_n == <<110>>                                   \* "n"
k_N == <<78>>                                    \* "N"
k_d0 == <<100, 48>>                              \* "d0"
k_d17 == <<100, 49, 55>>                         \* "d17"
k_h17 == <<104, 49, 55>>                         \* "h17"
k_d17_mir == <<100, 49, 55, 95, 109, 105, 114>>  \* "d17_mir"
k_h17_mir == <<104, 49, 55, 95, 109, 105, 114>>  \* "h17_mir"
k_d17_wg == <<100, 49, 55, 95, 119, 103>>        \* "d17_wg"
k_h17_wg == <<104, 49, 55, 95, 119, 103>>        \* "h17_wg"

s_mirror == <<109, 105, 114, 114, 111, 114>>                                 \* "mirror"
s_Mirror == <<77, 105, 114, 114, 111, 114>>                                  \* "Mirror"
s_defect == <<100, 101, 102, 101, 99, 116>>                                  \* "defect"
s_mirror_defect == <<109, 105, 114, 114, 111, 114, 95, 100, 101, 102, 101, 99, 116>>  \* "mirror_defect"
s_defectmirror == <<100, 101, 102, 101, 99, 116, 109, 105, 114, 114, 111, 114>>       \* "defectmirror"
s_wg == <<119, 103>>                                                         \* "wg"
s_WG == <<87, 71>>                                                           \* "WG"
s_waveguide == <<119, 97, 118, 101, 103, 117, 105, 100, 101>>                \* "waveguide"
s_mirror_wg == <<109, 105, 114, 114, 111, 114, 95, 119, 103>>                \* "mirror_wg"
s_mirrorwg == <<109, 105, 114, 114, 111, 114, 119, 103>>                     \* "mirrorwg"
s_cavity == <<99, 97, 118, 105, 116, 121>>                                   \* "cavity" (no kind)

v_17 == <<49, 55>>           \* "17"
v_0 == <<48>>                \* "0"
v_5 == <<53>>                \* "5"
v_2 == <<50>>                \* "2"
v_17pad == <<32, 49, 55, 32>>  \* " 17 "
v_5pad == <<53, 32>>         \* "5 "
v_1_7 == <<49, 32, 55>>      \* "1 7"

(***************************************************************************)
(* Python built-ins used by the program.                                   *)
(***************************************************************************)
\* str.lower() on ASCII
Lower(s) == [j \in DOMAIN s |-> IF s[j] \in 65..90 THEN s[j] + 32 ELSE s[j]]

\* the ASCII characters str.strip() removes
IsSpace(c) == c \in {9, 10, 11, 12, 13, 28, 29, 30, 31, 32}

RECURSIVE LStrip(_)
LStrip(s) == IF s # <<>> /\ IsSpace(Head(s)) THEN LStrip(Tail(s)) ELSE s

RECURSIVE RStrip(_)
RStrip(s) ==
    IF s # <<>> /\ IsSpace(s[Len(s)]) THEN RStrip(SubSeq(s, 1, Len(s) - 1)) ELSE s

\* str.strip()
Strip(s) == RStrip(LStrip(s))

\* s < t for Python str: lexicographic by code point
RECURSIVE StrLess(_, _)
StrLess(s, t) ==
    IF t = <<>> THEN FALSE
    ELSE IF s = <<>> THEN TRUE
    ELSE IF Head(s) # Head(t) THEN Head(s) < Head(t)
    ELSE StrLess(Tail(s), Tail(t))

\* decimal digits of a natural number, as str(int) prints it
RECURSIVE Digits(_)
Digits(n) == IF n < 10 THEN <<48 + n>> ELSE Digits(n \div 10) \o <<48 + (n % 10)>>

None == [t |-> "None"]
PyStrOf(s) == [t |-> "str", s |-> s]
PyInt(n) == [t |-> "int", n |-> n]

\* str(x) for the values the program meets: a str is itself, an int its digits
PyStr(x) == IF x.t = "int" THEN Digits(x.n) ELSE x.s

\* dict: a sequence of entries [k, v] with unique keys, in insertion order
DictKeys(d) == {d[j].k : j \in DOMAIN d}
DictHas(d, k) == k \in DictKeys(d)
DictGet(d, k) == d[CHOOSE j \in DOMAIN d : d[j].k = k].v

\* d[k] = v: an existing key keeps its place, a new key goes last
DictSet(d, k, v) ==
    IF DictHas(d, k)
    THEN [j \in DOMAIN d |-> IF d[j].k = k THEN [k |-> k, v |-> v] ELSE d[j]]
    ELSE Append(d, [k |-> k, v |-> v])

(***************************************************************************)
(* planned_params_for(model_kind, base).  The result is                    *)
(*   [raised |-> FALSE, params |-> the returned dict, base |-> the         *)
(*    caller's base object after the call]                                 *)
(* or [raised |-> TRUE, ...] for the ValueError.  `params = dict(base)` is  *)
(* a copy, so the writes to params leave the base object as it was.        *)
(***************************************************************************)
\* the same function with `params = base` (no copy): writes reach the caller's dict
planned_params_alias(mk, base) ==
    LET kind == Lower(mk)
        p1(n) == DictSet(base, k_n, n)
        p2(n, src) == IF DictHas(p1(n), src)
                      THEN DictSet(p1(n), k_d17, DictGet(p1(n), src)) ELSE p1(n)
        p3(n, dsrc, hsrc) == IF DictHas(p2(n, dsrc), hsrc)
                             THEN DictSet(p2(n, dsrc), k_h17, DictGet(p2(n, dsrc), hsrc))
                             ELSE p2(n, dsrc)
    IN  IF kind = s_mirror
        THEN [raised |-> FALSE, params |-> p3(v_17, k_d17_mir, k_h17_mir),
              base |-> p3(v_17, k_d17_mir, k_h17_mir)]
        ELSE IF kind \in {s_defect, s_mirror_defect, s_defectmirror}
        THEN [raised |-> FALSE, params |-> p1(v_0), base |-> p1(v_0)]
        ELSE IF kind \in {s_wg, s_waveguide, s_mirror_wg, s_mirrorwg}
        THEN [raised |-> FALSE, params |-> p3(v_17, k_d17_wg, k_h17_wg),
              base |-> p3(v_17, k_d17_wg, k_h17_wg)]
        ELSE [raised |-> TRUE, params |-> <<>>, base |-> base]

planned_params_for(mk, base) ==
    LET kind == Lower(mk)
        params0 == base                         \* params = dict(base)
        mirror1 == DictSet(params0, k_n, v_17)
        mirror2 == IF DictHas(base, k_d17_mir)
                   THEN DictSet(mirror1, k_d17, DictGet(base, k_d17_mir)) ELSE mirror1
        mirror3 == IF DictHas(base, k_h17_mir)
                   THEN DictSet(mirror2, k_h17, DictGet(base, k_h17_mir)) ELSE mirror2
        defect1 == DictSet(params0, k_n, v_0)
        wg1 == DictSet(params0, k_n, v_17)
        wg2 == IF DictHas(base, k_d17_wg)
               THEN DictSet(wg1, k_d17, DictGet(base, k_d17_wg)) ELSE wg1
        wg3 == IF DictHas(base, k_h17_wg)
               THEN DictSet(wg2, k_h17, DictGet(base, k_h17_wg)) ELSE wg2
    IN  IF kind = s_mirror
        THEN [raised |-> FALSE, params |-> mirror3, base |-> base]
        ELSE IF kind \in {s_defect, s_mirror_defect, s_defectmirror}
        THEN [raised |-> FALSE, params |-> defect1, base |-> base]
        ELSE IF kind \in {s_wg, s_waveguide, s_mirror_wg, s_mirrorwg}
        THEN [raised |-> FALSE, params |-> wg3, base |-> base]
        ELSE [raised |-> TRUE, params |-> <<>>, base |-> base]

(***************************************************************************)
(* The model handle.  model.getter tells whether model.parameter is        *)
(* callable; model.read[k] is what model.parameter(k) does: [t |-> "raise"] *)
(* when it raises, None, a str or an int.  model.kind names the variant.   *)
(***************************************************************************)
Raise == [t |-> "raise"]

\* the body of the `for k, v in planned.items()` loop up to current_str
current_str(m, k) ==
    IF ~m.getter THEN None
    ELSE IF m.read[k] = Raise THEN None          \* except Exception
    ELSE IF m.read[k] = None THEN None           \* current_val is None
    ELSE PyStrOf(PyStr(m.read[k]))

\* the same test without the strip() calls
is_mismatch_nostrip(cur, planned_str) ==
    cur = None \/ cur.s # planned_str

\* the test that records a diff
is_mismatch(cur, planned_str) ==
    cur = None \/ Strip(cur.s) # Strip(planned_str)

RECURSIVE detect_loop(_, _, _, _)
detect_loop(m, pl, j, acc) ==
    IF j > Len(pl) THEN acc
    ELSE LET cur == current_str(m, pl[j].k)
             planned_str == pl[j].v
         IN  detect_loop(m, pl, j + 1,
                 IF is_mismatch(cur, planned_str)
                 THEN DictSet(acc, pl[j].k, [cur |-> cur, new |-> planned_str])
                 ELSE acc)

\* sorted(d.items()): entries by ascending key
RECURSIVE SortedItems(_)
SortedItems(d) ==
    IF d = <<>> THEN <<>>
    ELSE LET m == CHOOSE j \in DOMAIN d : \A l \in DOMAIN d : ~StrLess(d[l].k, d[j].k)
         IN  <<d[m]>> \o SortedItems(SubSeq(d, 1, m - 1) \o SubSeq(d, m + 1, Len(d)))

\* a detector that returns its diffs sorted by name
detect_sorted(m, pl) == SortedItems(detect_loop(m, pl, 1, <<>>))

\* detect_param_mismatches(model, planned): a dict name -> (current, planned)
detect_param_mismatches(m, pl) == detect_loop(m, pl, 1, <<>>)

\* the names detect_param_mismatches reads, in order (none without a getter)
reads_of(m, pl) == IF m.getter THEN [j \in DOMAIN pl |-> pl[j].k] ELSE <<>>

(***************************************************************************)
(* main: inputs.                                                           *)
(***************************************************************************)
s_all == <<97, 108, 108>>                   \* "all"
e_Data1 == <<68, 97, 116, 97, 49>>          \* "Data1"   (an export definition)
e_BandTbl == <<66, 97, 110, 100, 84, 98, 108>>  \* "BandTbl" (an export definition)
e_user == <<109, 121>>                      \* "my"      (a --export-name)
tok_band == <<98, 97, 110, 100>>            \* "band"
tok_global == <<103, 108, 111, 98, 97, 108>>  \* "global"
tok_diag == <<100, 105, 97, 103>>           \* "diag"

\* keys of the models dict, in the order the dict literal gives them
models_keys == <<s_mirror, s_defect, s_wg>>

\* every parameter name the model uses
AllKeys == {k_n, k_N, k_d0, k_d17, k_h17, k_d17_mir, k_h17_mir, k_d17_wg, k_h17_wg}

\* load_final_params: {str(k): str(v) for k, v in data.items()}
load_final_params(data) == [j \in DOMAIN data |-> [k |-> data[j].k, v |-> PyStr(data[j].v)]]

\* selected = list(models.keys()) if args.which == "all" else [args.which]
selected_of(which) == IF which = s_all THEN models_keys ELSE <<which>>

\* canonical files a run is started on
JsonChoices ==
    { <<[k |-> k_d17_mir, v |-> PyStrOf(v_5)], [k |-> k_d17, v |-> PyStrOf(v_2)]>>,
      <<[k |-> k_n, v |-> PyInt(17)]>> }

ReadOf(f) == [k \in AllKeys |-> IF k \in DOMAIN f THEN f[k] ELSE Raise]

\* live models client.load can return: one without a getter and two parameter
\* stores, whose getter raises for the names the store does not hold
HandleChoices ==
    { [getter |-> FALSE, read |-> ReadOf(<<>>), exports |-> <<>>],
      [getter |-> TRUE, exports |-> <<e_Data1, e_BandTbl>>,
       read |-> ReadOf((k_d17_mir :> PyStrOf(v_5)) @@ (k_d17 :> PyStrOf(v_5pad))
                       @@ (k_n :> PyInt(17)))],
      [getter |-> TRUE, exports |-> <<e_Data1>>,
       read |-> ReadOf((k_d17_mir :> PyStrOf(v_5)) @@ (k_d17 :> PyStrOf(v_2))
                       @@ (k_n :> PyStrOf(v_0)))] }

NoModel == [getter |-> FALSE, read |-> ReadOf(<<>>), exports |-> <<>>, kind |-> <<>>]

\* tok in e
Contains(e, tok) ==
    \E j \in 1..(Len(e) - Len(tok) + 1) : SubSeq(e, j, j + Len(tok) - 1) = tok

\* [e for e in exports if any(tok in e.lower() for tok in ("band", "global", "diag"))]
preferred_of(exports) ==
    SelectSeq(exports, LAMBDA e : \E tok \in {tok_band, tok_global, tok_diag} :
                                      Contains(Lower(e), tok))

\* the export name main settles on; None or "" means no export
export_name_of(given, exports) ==
    IF given = None /\ exports # <<>>
    THEN IF preferred_of(exports) # <<>>
         THEN PyStrOf(preferred_of(exports)[1]) ELSE PyStrOf(exports[1])
    ELSE given

Truthy(x) == x # None /\ x.s # <<>>

kind == selected[i]

Call(op, ok) == [op |-> op, kind |-> kind, ok |-> ok]

(***************************************************************************)
(* main: the state after argument parsing, load_final_params and the       *)
(* computation of selected (lines 100-123).                                *)
(***************************************************************************)
Init ==
    /\ args \in [force : BOOLEAN, dry_run : BOOLEAN, save_solved : BOOLEAN,
                 export_name : {None, PyStrOf(e_user)},
                 which : {s_all, s_mirror, s_defect, s_wg}]
    /\ mph_avail \in BOOLEAN
    /\ final_json \in JsonChoices
    /\ base_params = load_final_params(final_json)
    /\ selected = selected_of(args.which)
    /\ i = 1
    /\ pc = "have_mph"
    /\ planned = <<>>
    /\ model = NoModel
    /\ diffs = <<>>
    /\ client_models = {}
    /\ calls = <<>>
    /\ stdout = <<>>
    /\ result = "running"
    /\ fails = 0
    /\ model_kind = <<>>
    /\ params = <<>>
    /\ profile = <<>>

\* if not have_mph(): print the notice, go to the report loop (lines 126-127)
NoMph ==
    /\ pc = "have_mph" /\ ~mph_avail
    /\ stdout' = Append(stdout, [tag |-> "NOMPH"])
    /\ pc' = "report"
    /\ UNCHANGED <<params, profile, args, mph_avail, final_json, base_params, selected, i, planned, model,
                   diffs, client_models, calls, result, fails, model_kind>>

\* one iteration of the report loop (lines 128-130)
ReportPlanned ==
    /\ pc = "report" /\ i <= Len(selected)
    /\ LET r == planned_params_for(kind, base_params)
       IN  /\ planned' = r.params
           /\ base_params' = r.base
           /\ stdout' = Append(stdout, [tag |-> "DRYPLAN", kind |-> kind,
                                        n |-> Len(r.params), forced |-> args.force])
    /\ i' = i + 1
    /\ UNCHANGED <<params, profile, args, mph_avail, final_json, selected, pc, model, diffs,
                   client_models, calls, result, fails, model_kind>>

\* return 0 after the report loop (line 131)
ReportReturn ==
    /\ pc = "report" /\ i > Len(selected)
    /\ pc' = "done" /\ result' = "return0"
    /\ UNCHANGED <<params, profile, args, mph_avail, final_json, base_params, selected, i, planned, model,
                   diffs, client_models, calls, stdout, fails, model_kind>>

\* mph.start() reached without looking at have_mph()
StartClient_unchecked ==
    /\ pc = "have_mph"
    /\ calls' = Append(calls, [op |-> "start", kind |-> <<>>, ok |-> TRUE])
    /\ pc' = "for"
    /\ UNCHANGED <<params, profile, args, mph_avail, final_json, base_params, selected, i, planned, model,
                   diffs, client_models, stdout, result, fails, model_kind>>

\* client = mph.start() (lines 133-136)
StartClient ==
    /\ pc = "have_mph" /\ mph_avail
    /\ calls' = Append(calls, [op |-> "start", kind |-> <<>>, ok |-> TRUE])
    /\ pc' = "for"
    /\ UNCHANGED <<params, profile, args, mph_avail, final_json, base_params, selected, i, planned, model,
                   diffs, client_models, stdout, result, fails, model_kind>>

\* the model file of this kind does not exist: [SKIP], continue (lines 139-141)
ForMissing ==
    /\ pc = "for" /\ i <= Len(selected)
    /\ stdout' = Append(stdout, [tag |-> "SKIP", kind |-> kind])
    /\ i' = i + 1
    /\ UNCHANGED <<params, profile, args, mph_avail, final_json, base_params, selected, pc, planned, model,
                   diffs, client_models, calls, result, fails, model_kind>>

\* the file exists: planned = planned_params_for(kind, base_params) (lines 138-142)
ForCompose ==
    /\ pc = "for" /\ i <= Len(selected)
    /\ LET r == planned_params_for(kind, base_params)
       IN  planned' = r.params /\ base_params' = r.base
    /\ pc' = "load"
    /\ UNCHANGED <<params, profile, args, mph_avail, final_json, selected, i, model, diffs, client_models,
                   calls, stdout, result, fails, model_kind>>

\* the loop is exhausted: return 0 inside the try (line 202)
ForEnd ==
    /\ pc = "for" /\ i > Len(selected)
    /\ pc' = "finally" /\ result' = "return0"
    /\ UNCHANGED <<params, profile, args, mph_avail, final_json, base_params, selected, i, planned, model,
                   diffs, client_models, calls, stdout, fails, model_kind>>

\* model = client.load(...); diffs = detect_param_mismatches(model, planned)
\* (lines 144-145)
LoadAndDetect ==
    /\ pc = "load"
    /\ \E h \in HandleChoices :
         LET m == [getter |-> h.getter, read |-> h.read, exports |-> h.exports,
                   kind |-> kind]
             rd == reads_of(m, planned)
         IN  /\ model' = m
             /\ diffs' = detect_param_mismatches(m, planned)
             /\ calls' = calls \o <<Call("load", TRUE)>>
                         \o [j \in DOMAIN rd |->
                               [op |-> "get", kind |-> kind, k |-> rd[j],
                                ok |-> m.read[rd[j]] # Raise]]
    /\ client_models' = client_models \cup {kind}
    /\ pc' = "diffed"
    /\ UNCHANGED <<params, profile, args, mph_avail, final_json, base_params, selected, i, planned,
                   stdout, result, fails, model_kind>>

\* the lines of the dry-run report: the header, then sorted(diffs.items())
dry_lines(d) ==
    <<[tag |-> "DRY", kind |-> kind, n |-> Len(d)]>>
    \o [j \in DOMAIN d |-> [tag |-> "DIFF", kind |-> kind, k |-> SortedItems(d)[j].k,
                            cur |-> SortedItems(d)[j].v.cur,
                            new |-> SortedItems(d)[j].v.new]]

\* the dry-run report followed by the updates instead of `continue`
DryRun_nocontinue ==
    /\ pc = "diffed" /\ args.dry_run
    /\ stdout' = stdout \o dry_lines(diffs)
    /\ model' = [model EXCEPT !.read =
                    [k \in AllKeys |-> IF DictHas(diffs, k)
                                       THEN PyStrOf(DictGet(diffs, k).new)
                                       ELSE model.read[k]]]
    /\ calls' = calls \o [j \in DOMAIN diffs |->
                            [op |-> "set", kind |-> kind, k |-> diffs[j].k,
                             v |-> diffs[j].v.new, ok |-> TRUE]]
    /\ pc' = "build"
    /\ UNCHANGED <<params, profile, args, mph_avail, final_json, base_params, selected, i, planned,
                   diffs, client_models, result, fails, model_kind>>

\* if args.dry_run: report and continue (lines 147-151)
DryRun ==
    /\ pc = "diffed" /\ args.dry_run
    /\ stdout' = stdout \o dry_lines(diffs)
    /\ i' = i + 1
    /\ pc' = "for"
    /\ UNCHANGED <<params, profile, args, mph_avail, final_json, base_params, selected, planned, model,
                   diffs, client_models, calls, result, fails, model_kind>>

\* if not diffs and not args.force: [OK], continue (lines 153-155)
SkipMatching ==
    /\ pc = "diffed" /\ ~args.dry_run
    /\ diffs = <<>> /\ ~args.force
    /\ stdout' = Append(stdout, [tag |-> "OK", kind |-> kind])
    /\ i' = i + 1
    /\ pc' = "for"
    /\ UNCHANGED <<params, profile, args, mph_avail, final_json, base_params, selected, planned, model,
                   diffs, client_models, calls, result, fails, model_kind>>

\* an update loop over planned.items(): every planned parameter is set
ApplyUpdates_allplanned ==
    /\ pc = "diffed" /\ ~args.dry_run
    /\ ~(diffs = <<>> /\ ~args.force)
    /\ model' = [model EXCEPT !.read =
                    [k \in AllKeys |-> IF DictHas(planned, k)
                                       THEN PyStrOf(DictGet(planned, k))
                                       ELSE model.read[k]]]
    /\ calls' = calls \o [j \in DOMAIN planned |->
                            [op |-> "set", kind |-> kind, k |-> planned[j].k,
                             v |-> planned[j].v, ok |-> TRUE]]
    /\ pc' = "build"
    /\ UNCHANGED <<params, profile, args, mph_avail, final_json, base_params, selected, i, planned,
                   diffs, client_models, stdout, result, fails, model_kind>>

\* the update loop reached although the diff is empty and force is off
ApplyUpdates_nomatchskip ==
    /\ pc = "diffed" /\ ~args.dry_run
    /\ model' = [model EXCEPT !.read =
                    [k \in AllKeys |-> IF DictHas(diffs, k)
                                       THEN PyStrOf(DictGet(diffs, k).new)
                                       ELSE model.read[k]]]
    /\ calls' = calls \o [j \in DOMAIN diffs |->
                            [op |-> "set", kind |-> kind, k |-> diffs[j].k,
                             v |-> diffs[j].v.new, ok |-> TRUE]]
    /\ pc' = "build"
    /\ UNCHANGED <<params, profile, args, mph_avail, final_json, base_params, selected, i, planned,
                   diffs, client_models, stdout, result, fails, model_kind>>

\* for k, (_, new) in diffs.items(): model.parameter(str(k), str(new))
\* (lines 157-159)
ApplyUpdates ==
    /\ pc = "diffed" /\ ~args.dry_run
    /\ ~(diffs = <<>> /\ ~args.force)
    /\ model' = [model EXCEPT !.read =
                    [k \in AllKeys |-> IF DictHas(diffs, k)
                                       THEN PyStrOf(DictGet(diffs, k).new)
                                       ELSE model.read[k]]]
    /\ calls' = calls \o [j \in DOMAIN diffs |->
                            [op |-> "set", kind |-> kind, k |-> diffs[j].k,
                             v |-> diffs[j].v.new, ok |-> TRUE]]
    /\ pc' = "build"
    /\ UNCHANGED <<params, profile, args, mph_avail, final_json, base_params, selected, i, planned,
                   diffs, client_models, stdout, result, fails, model_kind>>

\* what an engine operation may do now: succeed, or fail while failures remain
Outcomes == IF fails < MaxFails THEN {TRUE, FALSE} ELSE {TRUE}

Failed(ok) == IF ok THEN fails ELSE fails + 1

\* try: model.build() except Exception: pass (lines 162-165)
Build ==
    /\ pc = "build"
    /\ \E ok \in Outcomes :
         /\ calls' = Append(calls, Call("build", ok))
         /\ fails' = Failed(ok)
    /\ pc' = "mesh"
    /\ UNCHANGED <<params, profile, args, mph_avail, final_json, base_params, selected, i, planned, model,
                   diffs, client_models, stdout, result, model_kind>>

\* try: model.mesh() except Exception: pass (lines 166-169)
Mesh ==
    /\ pc = "mesh"
    /\ \E ok \in Outcomes :
         /\ calls' = Append(calls, Call("mesh", ok))
         /\ fails' = Failed(ok)
    /\ pc' = "solve"
    /\ UNCHANGED <<params, profile, args, mph_avail, final_json, base_params, selected, i, planned, model,
                   diffs, client_models, stdout, result, model_kind>>

\* solve in a try that swallows the failure and goes on to the release
Solve_swallowed ==
    /\ pc = "solve"
    /\ stdout' = Append(stdout, [tag |-> "RUN", kind |-> kind, n |-> Len(diffs)])
    /\ \E ok \in Outcomes :
         /\ calls' = Append(calls, Call("solve", ok))
         /\ fails' = Failed(ok)
         /\ pc' = IF ok THEN "export" ELSE "clear"
    /\ UNCHANGED <<params, profile, args, mph_avail, final_json, base_params, selected, i, planned, model,
                   diffs, client_models, result, model_kind>>

\* print [RUN]; model.solve(args.study): an exception leaves the for loop and
\* the try block (lines 170-171, 203)
Solve ==
    /\ pc = "solve"
    /\ stdout' = Append(stdout, [tag |-> "RUN", kind |-> kind, n |-> Len(diffs)])
    /\ \E ok \in Outcomes :
         /\ calls' = Append(calls, Call("solve", ok))
         /\ fails' = Failed(ok)
         /\ IF ok THEN pc' = "export" /\ result' = result
                  ELSE pc' = "finally" /\ result' = "exception"
    /\ UNCHANGED <<params, profile, args, mph_avail, final_json, base_params, selected, i, planned, model,
                   diffs, client_models, model_kind>>

\* model.export outside any try: its failure leaves the loop
Export_propagates ==
    /\ pc = "export"
    /\ LET export_name == export_name_of(args.export_name, model.exports)
       IN  IF Truthy(export_name)
           THEN \E ok \in Outcomes :
                  /\ calls' = calls \o <<Call("list_exports", TRUE),
                                         [op |-> "export", kind |-> kind,
                                          name |-> export_name.s, ok |-> ok]>>
                  /\ fails' = Failed(ok)
                  /\ IF ok
                     THEN /\ stdout' = Append(stdout, [tag |-> "OUT", kind |-> kind,
                                                       op |-> "export"])
                          /\ pc' = "save" /\ result' = result
                     ELSE /\ stdout' = stdout
                          /\ pc' = "finally" /\ result' = "exception"
           ELSE /\ calls' = Append(calls, Call("list_exports", TRUE))
                /\ pc' = "save"
                /\ UNCHANGED <<fails, stdout, result>>
    /\ UNCHANGED <<params, profile, args, mph_avail, final_json, base_params, selected, i, planned, model,
                   diffs, client_models, model_kind>>

\* list_exports, the choice of export_name, model.export in a try that prints
\* [OUT] or [WARN] (lines 173-185)
Export ==
    /\ pc = "export"
    /\ LET export_name == export_name_of(args.export_name, model.exports)
       IN  IF Truthy(export_name)
           THEN \E ok \in Outcomes :
                  /\ calls' = calls \o <<Call("list_exports", TRUE),
                                         [op |-> "export", kind |-> kind,
                                          name |-> export_name.s, ok |-> ok]>>
                  /\ fails' = Failed(ok)
                  /\ stdout' = Append(stdout, [tag |-> IF ok THEN "OUT" ELSE "WARN",
                                               kind |-> kind, op |-> "export"])
           ELSE /\ calls' = Append(calls, Call("list_exports", TRUE))
                /\ UNCHANGED <<fails, stdout>>
    /\ pc' = "save"
    /\ UNCHANGED <<params, profile, args, mph_avail, final_json, base_params, selected, i, planned, model,
                   diffs, client_models, result, model_kind>>

\* model.save in a try whose handler is `pass`
Save_silent ==
    /\ pc = "save"
    /\ IF args.save_solved
       THEN \E ok \in Outcomes :
              /\ calls' = Append(calls, Call("save", ok))
              /\ fails' = Failed(ok)
              /\ stdout' = IF ok THEN Append(stdout, [tag |-> "SAVE", kind |-> kind,
                                                      op |-> "save"])
                                 ELSE stdout
       ELSE UNCHANGED <<calls, fails, stdout>>
    /\ pc' = "clear"
    /\ UNCHANGED <<params, profile, args, mph_avail, final_json, base_params, selected, i, planned, model,
                   diffs, client_models, result, model_kind>>

\* if args.save_solved: model.save in a try that prints [SAVE] or [WARN]
\* (lines 187-194)
Save ==
    /\ pc = "save"
    /\ IF args.save_solved
       THEN \E ok \in Outcomes :
              /\ calls' = Append(calls, Call("save", ok))
              /\ fails' = Failed(ok)
              /\ stdout' = Append(stdout, [tag |-> IF ok THEN "SAVE" ELSE "WARN",
                                           kind |-> kind, op |-> "save"])
       ELSE UNCHANGED <<calls, fails, stdout>>
    /\ pc' = "clear"
    /\ UNCHANGED <<params, profile, args, mph_avail, final_json, base_params, selected, i, planned, model,
                   diffs, client_models, result, model_kind>>

\* try: client.clear() except Exception: pass, then the next iteration
\* (lines 196-200)
Clear ==
    /\ pc = "clear"
    /\ \E ok \in Outcomes :
         /\ calls' = Append(calls, Call("clear", ok))
         /\ fails' = Failed(ok)
         /\ client_models' = IF ok THEN {} ELSE client_models
    /\ i' = i + 1
    /\ pc' = "for"
    /\ UNCHANGED <<params, profile, args, mph_avail, final_json, base_params, selected, planned, model,
                   diffs, stdout, result, model_kind>>

\* finally: try: client.clear() except Exception: pass; then main returns 0 or
\* the exception leaves main (lines 203-207)
Finally ==
    /\ pc = "finally"
    /\ \E ok \in Outcomes :
         /\ calls' = Append(calls, [op |-> "clear", kind |-> <<>>, ok |-> ok])
         /\ fails' = Failed(ok)
         /\ client_models' = IF ok THEN {} ELSE client_models
    /\ pc' = "done"
    /\ UNCHANGED <<params, profile, args, mph_avail, final_json, base_params, selected, i, planned, model,
                   diffs, stdout, result, model_kind>>

Next ==
    \/ NoMph \/ ReportPlanned \/ ReportReturn
    \/ StartClient \/ ForMissing \/ ForCompose \/ ForEnd
    \/ LoadAndDetect \/ DryRun \/ SkipMatching \/ ApplyUpdates
    \/ Build \/ Mesh \/ Solve \/ Export \/ Save \/ Clear \/ Finally

Spec == Init /\ [][Next]_vars

(***************************************************************************)
(* planned_params_for and detect_param_mismatches exercised alone, on      *)
(* bounded inputs.                                                         *)
(***************************************************************************)
\* every dict of at most n entries with keys in K and values in V
DictsOver(K, V, n) ==
    { d \in UNION { [1..m -> [k : K, v : V]] : m \in 0..n } :
        \A a, b \in DOMAIN d : a # b => d[a].k # d[b].k }

PureKinds == {s_mirror, s_Mirror, s_defect, s_mirror_defect, s_defectmirror,
              s_wg, s_WG, s_waveguide, s_mirror_wg, s_mirrorwg, s_cavity}

PureBaseKeys == {k_n, k_N, k_d0, k_d17, k_h17, k_d17_mir, k_h17_mir, k_d17_wg, k_h17_wg}

PureDetectKeys == {k_n, k_N, k_d17}

PureReads == {Raise, None, PyStrOf(v_17pad), PyInt(17), PyStrOf(v_1_7), PyStrOf(v_5)}

NoArgs == [force |-> FALSE, dry_run |-> FALSE, save_solved |-> FALSE,
           export_name |-> None, which |-> s_all]

PureInit ==
    /\ args = NoArgs
    /\ mph_avail = FALSE
    /\ selected = <<>>
    /\ i = 1
    /\ diffs = <<>>
    /\ client_models = {}
    /\ calls = <<>>
    /\ stdout = <<>>
    /\ result = "running"
    /\ fails = 0
    /\ params = <<>>
    /\ profile = <<>>
    /\ \/ /\ pc = "p_compose"
          /\ model_kind \in PureKinds
          /\ final_json \in DictsOver(PureBaseKeys, {PyStrOf(v_5), PyStrOf(v_2)}, MaxBaseLen)
          /\ base_params = load_final_params(final_json)
          /\ planned = <<>>
          /\ model = NoModel
       \/ /\ pc = "p_detect"
          /\ model_kind = <<>>
          /\ final_json = <<>>
          /\ base_params = <<>>
          /\ planned \in DictsOver(PureDetectKeys, {v_17, v_17pad, v_5}, MaxPlannedLen)
          /\ \E g \in BOOLEAN, rd \in [PureDetectKeys -> PureReads] :
               model = [getter |-> g, read |-> ReadOf(rd), exports |-> <<>>, kind |-> <<>>]

\* planned = planned_params_for(model_kind, base)
PureCompose ==
    /\ pc = "p_compose"
    /\ LET r == planned_params_for(model_kind, base_params)
       IN  /\ planned' = r.params
           /\ base_params' = r.base
           /\ pc' = IF r.raised THEN "p_raised" ELSE "p_composed"
    /\ UNCHANGED <<params, profile, args, mph_avail, final_json, selected, i, model, diffs, client_models,
                   calls, stdout, result, fails, model_kind>>

\* diffs = detect_param_mismatches(model, planned)
PureDetect ==
    /\ pc = "p_detect"
    /\ diffs' = detect_param_mismatches(model, planned)
    /\ pc' = "p_diffed"
    /\ UNCHANGED <<params, profile, args, mph_avail, final_json, base_params, selected, i, planned, model,
                   client_models, calls, stdout, result, fails, model_kind>>

PureNext == PureCompose \/ PureDetect

SpecPure == PureInit /\ [][PureNext]_vars

(***************************************************************************)
(* Vocabulary of the properties.                                           *)
(***************************************************************************)
\* positions in calls of the calls of operation op made for variant k
CallsOf(op, k) == {j \in DOMAIN calls : calls[j].op = op /\ calls[j].kind = k}

FailedCallsOf(op, k) == {j \in CallsOf(op, k) : ~calls[j].ok}

LinesOf(tag, k) == {j \in DOMAIN stdout : stdout[j].tag = tag /\ stdout[j].kind = k}

Pos(k) == CHOOSE p \in DOMAIN selected : selected[p] = k

\* the loop body has been entered for the variant at position p
Entered(p) == i > p \/ (i = p /\ pc # "for")

\* the pass of the current variant has not yet reached the end of solve
BeforeSolveReturns == pc \in {"diffed", "build", "mesh", "solve"}

MutatingOps == {"set", "build", "mesh", "solve", "export", "save"}

\* C1: engine available, dry-run off: for the variant whose diff list is
\* empty, no setParameter call is made; without force no solve call is made;
\* with force solve is called exactly once (none before the pass reaches it,
\* one ever after).
C1_EmptyDiffCalls ==
    (mph_avail /\ ~args.dry_run /\ model.kind # <<>> /\ diffs = <<>>) =>
        /\ CallsOf("set", model.kind) = {}
        /\ ~args.force => CallsOf("solve", model.kind) = {}
        /\ args.force =>
             Cardinality(CallsOf("solve", model.kind)) = IF BeforeSolveReturns THEN 0 ELSE 1

C1_Witness ==
    /\ mph_avail /\ ~args.dry_run /\ args.force
    /\ model.kind = s_defect /\ diffs = <<>> /\ model.getter
    /\ Cardinality(CallsOf("solve", s_defect)) = 1
    /\ pc = "done"

\* C2: with dry-run set, whatever force and the diff lists are, no
\* setParameter, build, mesh, solve, export or save call is ever made, the
\* loaded model keeps the parameters it was loaded with, a reported variant is
\* followed by the next one, and the run ends with every selected variant
\* reported or skipped as missing.
C2_DryRunNoMutation ==
    (mph_avail /\ args.dry_run) =>
        /\ \A j \in DOMAIN calls : calls[j].op \notin MutatingOps
        /\ model.kind # <<>> => \E h \in HandleChoices : model.read = h.read
        /\ \A p \in DOMAIN selected : LinesOf("DRY", selected[p]) # {} => i > p
        /\ pc = "done" =>
             /\ result = "return0"
             /\ \A p \in DOMAIN selected :
                  LinesOf("DRY", selected[p]) \cup LinesOf("SKIP", selected[p]) # {}

C2_Witness ==
    /\ mph_avail /\ args.dry_run /\ args.force /\ pc = "done"
    /\ \A p \in DOMAIN models_keys : LinesOf("DRY", models_keys[p]) # {}
    /\ LinesOf("DIFF", s_mirror) # {}
    /\ LinesOf("DIFF", s_defect) = {}

C4_ReleasedBeforeNextLoad ==
    /\ \A a, b \in DOMAIN calls :
         (a < b /\ calls[a].op = "load" /\ calls[b].op = "load") =>
             \E c \in DOMAIN calls : a < c /\ c < b /\ calls[c].op = "clear"
    /\ Cardinality(client_models) <= 1

\* C5: a failed build or mesh is followed by the solve call of the same
\* variant; a failed export or save is followed by the clear call of the same
\* variant and then by the next selected variant.
C5_BestEffortContinues ==
    \A p \in DOMAIN selected :
        LET k == selected[p] IN
        /\ FailedCallsOf("build", k) \cup FailedCallsOf("mesh", k) # {} =>
             \/ i = p /\ pc \in {"mesh", "solve"}
             \/ CallsOf("solve", k) # {}
        /\ FailedCallsOf("export", k) \cup FailedCallsOf("save", k) # {} =>
             /\ \A j \in CallsOf("solve", k) : calls[j].ok
             /\ \/ i = p /\ pc \in {"save", "clear"}
                \/ /\ CallsOf("clear", k) # {}
                   /\ p < Len(selected) => (i = p + 1 /\ pc = "for") \/ Entered(p + 1)

C5_Witness ==
    /\ args.which = s_all /\ pc = "done" /\ result = "return0"
    /\ FailedCallsOf("export", s_mirror) # {}
    /\ CallsOf("load", s_defect) # {} /\ CallsOf("load", s_wg) # {}

\* C6 as stated: every failed build, mesh, export, save or clear that main
\* swallows leaves a warning on the output.
SwallowedOps == {"build", "mesh", "export", "save", "clear"}

C7_ReportOnly ==
    ~mph_avail =>
        /\ pc \in {"have_mph", "report", "done"}
        /\ calls = <<>> /\ client_models = {} /\ model = NoModel
        /\ result # "exception"
        /\ pc = "done" =>
             /\ result = "return0"
             /\ Len(stdout) = Len(selected) + 1
             /\ \A p \in DOMAIN selected :
                  /\ stdout[p + 1].tag = "DRYPLAN" /\ stdout[p + 1].kind = selected[p]
                  /\ stdout[p + 1].forced = args.force

C7_Witness ==
    /\ ~mph_avail /\ pc = "done" /\ args.which = s_all
    /\ args.force /\ ~args.dry_run
    /\ Len(stdout) = Len(models_keys) + 1

(***************************************************************************)
(* Properties of planned_params_for and detect_param_mismatches.           *)
(***************************************************************************)
MirrorNames == {s_mirror, s_Mirror}
DefectNames == {s_defect, s_mirror_defect, s_defectmirror}
WaveguideNames == {s_wg, s_WG, s_waveguide, s_mirror_wg, s_mirrorwg}

\* d.get(k): the value, or None
Lookup(d, k) == IF \E j \in DOMAIN d : d[j].k = k
                THEN PyStrOf(d[CHOOSE j \in DOMAIN d : d[j].k = k].v) ELSE None

\* what the composed set must map name k to, given the base set as loaded
ComposedValue(mk, base, k) ==
    IF k = k_n THEN (IF mk \in DefectNames THEN PyStrOf(v_0) ELSE PyStrOf(v_17))
    ELSE IF k = k_d17 /\ mk \in MirrorNames /\ Lookup(base, k_d17_mir) # None
    THEN Lookup(base, k_d17_mir)
    ELSE IF k = k_h17 /\ mk \in MirrorNames /\ Lookup(base, k_h17_mir) # None
    THEN Lookup(base, k_h17_mir)
    ELSE IF k = k_d17 /\ mk \in WaveguideNames /\ Lookup(base, k_d17_wg) # None
    THEN Lookup(base, k_d17_wg)
    ELSE IF k = k_h17 /\ mk \in WaveguideNames /\ Lookup(base, k_h17_wg) # None
    THEN Lookup(base, k_h17_wg)
    ELSE Lookup(base, k)

\* C8: for every base set and every recognized kind the composed set maps n
\* to "17" (mirror, waveguide) or "0" (defect), d17/h17 to the side-specific
\* values where the kind has them, every other name to its base value, has no
\* name twice, and the caller's base set is left as it was loaded; only an
\* unrecognized kind raises.
C8_ComposeExact ==
    /\ pc = "p_composed" =>
         /\ model_kind \in MirrorNames \cup DefectNames \cup WaveguideNames
         /\ \A k \in AllKeys :
              Lookup(planned, k) = ComposedValue(model_kind, load_final_params(final_json), k)
         /\ DictKeys(planned) \subseteq AllKeys
         /\ Cardinality(DictKeys(planned)) = Len(planned)
         /\ base_params = load_final_params(final_json)
    /\ pc = "p_raised" =>
         /\ model_kind \notin MirrorNames \cup DefectNames \cup WaveguideNames
         /\ base_params = load_final_params(final_json)

C8_Witness ==
    /\ pc = "p_composed" /\ model_kind = s_Mirror
    /\ Lookup(base_params, k_d17_mir) = PyStrOf(v_5)
    /\ Lookup(base_params, k_d17) = PyStrOf(v_2)
    /\ Lookup(planned, k_d17) = PyStrOf(v_5)
    /\ Lookup(planned, k_n) = PyStrOf(v_17)

\* the reader gives no value for name k
Unavailable(k) == ~model.getter \/ model.read[k] = Raise \/ model.read[k] = None

\* the text of the value the reader gives for name k
CurrentText(k) == IF model.read[k].t = "int" THEN Digits(model.read[k].n) ELSE model.read[k].s

\* C9: a planned name is in the diff exactly when the reader is unavailable
\* for it or its current text differs from the planned text after trimming
\* both; its entry holds the current text (or None) and the planned text.
\* So a reader that is unavailable for all names reports every planned name,
\* and one that agrees up to surrounding whitespace reports nothing.
C9_MismatchIff ==
    pc = "p_diffed" =>
        /\ \A k \in AllKeys :
             Lookup(diffs, k) # None <=>
                 /\ Lookup(planned, k) # None
                 /\ \/ Unavailable(k)
                    \/ Strip(CurrentText(k)) # Strip(Lookup(planned, k).s)
        /\ \A j \in DOMAIN diffs :
             /\ diffs[j].v.new = Lookup(planned, diffs[j].k).s
             /\ diffs[j].v.cur = IF Unavailable(diffs[j].k) THEN None
                                 ELSE PyStrOf(CurrentText(diffs[j].k))
        /\ (\A j \in DOMAIN planned : Unavailable(planned[j].k)) =>
               DictKeys(diffs) = DictKeys(planned)
        /\ (\A j \in DOMAIN planned :
               /\ ~Unavailable(planned[j].k)
               /\ Strip(CurrentText(planned[j].k)) = Strip(planned[j].v)) => diffs = <<>>

C9_Witness ==
    /\ pc = "p_diffed" /\ model.getter /\ Len(planned) = 2
    /\ planned[1].k = k_n /\ planned[1].v = v_17 /\ model.read[k_n] = PyStrOf(v_17pad)
    /\ planned[2].k = k_N /\ model.read[k_N] = PyStrOf(v_1_7)
    /\ DictKeys(diffs) = {k_N}

\* C10 as stated: the diff returned by the detector is in ascending name order.
C10_DiffSortedByName ==
    \A a, b \in DOMAIN diffs : a < b => StrLess(diffs[a].k, diffs[b].k)

\* position of name k in planned
PlannedIndex(k) == CHOOSE j \in DOMAIN planned : planned[j].k = k

\* the DIFF lines printed for variant k, in the order printed
DiffLines(k) == SelectSeq(stdout, LAMBDA l : l.tag = "DIFF" /\ l.kind = k)

\* C10 amended: the diff returned by the detector keeps the insertion order
\* of the planned set (its names are a subsequence of planned's names); the
\* ascending, case-sensitive name order is that of the dry-run report, which
\* prints one line per diff, sorted by name.
C10_PlannedOrderSortedReport ==
    /\ (pc \notin {"load", "report", "have_mph"} /\ model.kind # <<>>) =>
         \A a, b \in DOMAIN diffs :
             a < b => PlannedIndex(diffs[a].k) < PlannedIndex(diffs[b].k)
    /\ \A p \in DOMAIN selected :
         /\ \A a, b \in DOMAIN DiffLines(selected[p]) :
              a < b => StrLess(DiffLines(selected[p])[a].k, DiffLines(selected[p])[b].k)
         /\ (model.kind = selected[p] /\ LinesOf("DRY", selected[p]) # {}) =>
              {DiffLines(selected[p])[a].k : a \in DOMAIN DiffLines(selected[p])}
                  = DictKeys(diffs)

C10_Witness ==
    /\ args.dry_run /\ pc = "for" /\ model.kind = s_mirror
    /\ Len(diffs) = 3 /\ diffs[1].k = k_d17_mir /\ diffs[2].k = k_d17
    /\ Len(DiffLines(s_mirror)) = 3
    /\ DiffLines(s_mirror)[1].k = k_d17 /\ DiffLines(s_mirror)[2].k = k_d17_mir

(***************************************************************************)
(* Order of the engine calls of an applying pass.                          *)
(***************************************************************************)
\* the calls made for variant k after its load and its parameter reads
PassCalls(k) ==
    SelectSeq(calls, LAMBDA c : c.kind = k /\ c.op \notin {"start", "load", "get"})

\* number of leading setParameter calls of a pass
RECURSIVE LeadingSets(_)
LeadingSets(cs) ==
    IF cs # <<>> /\ Head(cs).op = "set" THEN 1 + LeadingSets(Tail(cs)) ELSE 0

\* the operations of a pass after its setParameter calls
OpsAfterSets(cs) ==
    [j \in 1..(Len(cs) - LeadingSets(cs)) |-> cs[LeadingSets(cs) + j].op]

\* the orders in which a complete pass may call the engine after its updates
FullPassOrders ==
    { <<"build", "mesh", "solve", "list_exports">> \o ex \o sv \o <<"clear">> :
        ex \in {<<>>, <<"export">>}, sv \in {<<>>, <<"save">>} }

IsPrefix(a, b) == Len(a) <= Len(b) /\ SubSeq(b, 1, Len(a)) = a

\* C14: in a pass that applies changes, the calls for the variant are: one
\* setParameter per diff entry, in diff order, with the planned value, and
\* none for any other name; then build, mesh and solve, each once; export and
\* save only after a solve that succeeded; clear last.  A failed solve ends
\* the calls of the pass.
C14_ApplyOrder ==
    \A p \in DOMAIN selected :
        LET cs == PassCalls(selected[p])
            nset == LeadingSets(cs)
            ops == OpsAfterSets(cs)
        IN  cs # <<>> =>
              /\ \E full \in FullPassOrders : IsPrefix(ops, full)
              /\ (Len(ops) > 3 => cs[nset + 3].ok)
              /\ (Len(ops) >= 3 /\ ~cs[nset + 3].ok => Len(ops) = 3)
              /\ "save" \in {ops[j] : j \in DOMAIN ops} => args.save_solved
              /\ (model.kind = selected[p]) =>
                    /\ nset = Len(diffs)
                    /\ \A j \in 1..nset :
                         cs[j].k = diffs[j].k /\ cs[j].v = diffs[j].v.new
                    /\ i > p => \/ ops \in FullPassOrders
                                \/ (Len(ops) = 3 /\ ~cs[nset + 3].ok)

C14_Witness ==
    /\ pc = "done" /\ result = "return0" /\ args.save_solved
    /\ model.kind = s_wg /\ Len(diffs) = 3
    /\ Len(PassCalls(s_wg)) = 10
    /\ \A j \in DOMAIN calls : calls[j].ok

(***************************************************************************)
(* compute_profile (extract_and_plot_final_geometry.py).                   *)
(*                                                                         *)
(* A float is a record [c, m, e]: of class "fin" it is the dyadic number   *)
(* m / 2^e with e >= 0 and m odd unless e = 0; the other classes are -0.0, *)
(* inf, -inf, nan, and "other", a float this model has no exact form for   *)
(* (a non-dyadic quotient, a non-integer power).  On the dyadic values     *)
(* used here binary floating point is exact, so the arithmetic below is    *)
(* IEEE arithmetic.  The arithmetic is written as functions of floats.     *)
(***************************************************************************)
k_n_ext == <<110, 95, 101, 120, 116>>                       \* "n_ext"
k_N_unitcell == <<78, 95, 117, 110, 105, 116, 99, 101, 108, 108>>  \* "N_unitcell"
k_h0 == <<104, 48>>                                         \* "h0"
k_dN == <<100, 78>>                                         \* "dN"
k_d_ext == <<100, 95, 101, 120, 116>>                       \* "d_ext"
k_hN == <<104, 78>>                                         \* "hN"
k_h_ext == <<104, 95, 101, 120, 116>>                       \* "h_ext"
k_delx == <<100, 101, 108, 120>>                            \* "delx"
k_delta_x == <<100, 101, 108, 116, 97, 95, 120>>            \* "delta_x"
k_dx == <<100, 120>>                                        \* "dx"
k_M == <<77>>                                               \* "M"
k_m == <<109>>                                              \* "m"
t_inf == <<105, 110, 102>>                                  \* "inf"
t_infinity == <<105, 110, 102, 105, 110, 105, 116, 121>>    \* "infinity"
t_nan == <<110, 97, 110>>                                   \* "nan"

RECURSIVE Pow2(_)
Pow2(k) == IF k = 0 THEN 1 ELSE 2 * Pow2(k - 1)

RECURSIVE IntPow(_, _)
IntPow(b, k) == IF k = 0 THEN 1 ELSE b * IntPow(b, k - 1)

Abs(n) == IF n < 0 THEN -n ELSE n

Float == [c : {"fin", "-0", "inf", "-inf", "nan", "other"}, m : Int, e : Nat]

\* m / 2^e in lowest terms
RECURSIVE Fin(_, _)
Fin(m, e) == IF e > 0 /\ m % 2 = 0 THEN Fin(m \div 2, e - 1) ELSE [c |-> "fin", m |-> m, e |-> e]

NegZero == [c |-> "-0", m |-> 0, e |-> 0]
PosInf == [c |-> "inf", m |-> 0, e |-> 0]
NegInf == [c |-> "-inf", m |-> 0, e |-> 0]
NaN == [c |-> "nan", m |-> 0, e |-> 0]
Unrepresented == [c |-> "other", m |-> 0, e |-> 0]

IsZero(x) == x.c = "-0" \/ (x.c = "fin" /\ x.m = 0)
IsFinite(x) == x.c \in {"fin", "-0"}
IsNegative(x) == x.c \in {"-0", "-inf"} \/ (x.c = "fin" /\ x.m < 0)
\* an integer-valued float, and whether it is odd
IsInteger(x) == IsFinite(x) /\ x.e = 0
IsOddInteger(x) == IsInteger(x) /\ x.m % 2 # 0
SignedInf(neg) == IF neg THEN NegInf ELSE PosInf
SignedZero(neg) == IF neg THEN NegZero ELSE Fin(0, 0)

\* -x
FNeg[x \in Float] ==
    CASE x.c = "fin" -> IF x.m = 0 THEN NegZero ELSE Fin(-x.m, x.e)
      [] x.c = "-0" -> Fin(0, 0)
      [] x.c = "inf" -> NegInf
      [] x.c = "-inf" -> PosInf
      [] OTHER -> x

\* a - b
FSub[a \in Float, b \in Float] ==
    IF a = NaN \/ b = NaN THEN NaN
    ELSE IF a = Unrepresented \/ b = Unrepresented THEN Unrepresented
    ELSE IF ~IsFinite(a) THEN (IF a = b THEN NaN ELSE a)
    ELSE IF ~IsFinite(b) THEN FNeg[b]
    ELSE IF IsZero(a) /\ IsZero(b)
    THEN SignedZero(a = NegZero /\ b # NegZero)
    ELSE LET e == IF a.e > b.e THEN a.e ELSE b.e
         IN  Fin(a.m * Pow2(e - a.e) - b.m * Pow2(e - b.e), e)

\* a * b
FMul[a \in Float, b \in Float] ==
    IF a = NaN \/ b = NaN THEN NaN
    ELSE IF a = Unrepresented \/ b = Unrepresented THEN Unrepresented
    ELSE IF ~IsFinite(a) \/ ~IsFinite(b)
    THEN (IF IsZero(a) \/ IsZero(b) THEN NaN
          ELSE SignedInf(IsNegative(a) # IsNegative(b)))
    ELSE IF IsZero(a) \/ IsZero(b) THEN SignedZero(IsNegative(a) # IsNegative(b))
    ELSE Fin(a.m * b.m, a.e + b.e)

\* the largest t with 2^t dividing q > 0
RECURSIVE TwoAdic(_)
TwoAdic(q) == IF q % 2 = 0 THEN 1 + TwoAdic(q \div 2) ELSE 0

\* a / b for a numpy scalar a: division by zero gives inf or nan with a
\* RuntimeWarning, it does not raise
FDiv[a \in Float, b \in Float] ==
    IF a = NaN \/ b = NaN THEN NaN
    ELSE IF a = Unrepresented \/ b = Unrepresented THEN Unrepresented
    ELSE IF ~IsFinite(a) THEN (IF ~IsFinite(b) THEN NaN
                               ELSE SignedInf(IsNegative(a) # IsNegative(b)))
    ELSE IF ~IsFinite(b) THEN SignedZero(IsNegative(a) # IsNegative(b))
    ELSE IF IsZero(b) THEN (IF IsZero(a) THEN NaN
                            ELSE SignedInf(IsNegative(a) # IsNegative(b)))
    ELSE IF IsZero(a) THEN SignedZero(IsNegative(a) # IsNegative(b))
    ELSE LET num == a.m * Pow2(b.e) * (IF b.m < 0 THEN -1 ELSE 1)
             den == Abs(b.m)
             odd == den \div Pow2(TwoAdic(den))
         IN  IF num % odd = 0
             THEN Fin(num \div odd, a.e + TwoAdic(den))
             ELSE Unrepresented

\* x ** y (numpy power of two floats)
FPow[x \in Float, y \in Float] ==
    IF IsZero(y) THEN Fin(1, 0)
    ELSE IF x = Fin(1, 0) THEN Fin(1, 0)
    ELSE IF x = NaN \/ y = NaN THEN NaN
    ELSE IF x = Unrepresented \/ y = Unrepresented \/ ~IsFinite(y) THEN Unrepresented
    ELSE IF ~IsFinite(x)
    THEN (IF IsNegative(y) THEN SignedZero(x = NegInf /\ IsOddInteger(y))
          ELSE SignedInf(x = NegInf /\ IsOddInteger(y)))
    ELSE IF IsZero(x)
    THEN (IF IsNegative(y) THEN SignedInf(x = NegZero /\ IsOddInteger(y))
          ELSE SignedZero(x = NegZero /\ IsOddInteger(y)))
    ELSE IF ~IsInteger(y) THEN (IF IsNegative(x) THEN NaN ELSE Unrepresented)
    ELSE IF IsNegative(y)
    THEN FDiv[Fin(1, 0), Fin(IntPow(x.m, -y.m), x.e * (-y.m))]
    ELSE Fin(IntPow(x.m, y.m), x.e * y.m)

\* 2.0 ** x
FExp2[x \in Float] ==
    CASE x = NaN -> NaN
      [] x = PosInf -> PosInf
      [] x = NegInf -> Fin(0, 0)
      [] IsZero(x) -> Fin(1, 0)
      [] IsInteger(x) /\ ~IsZero(x) /\ Abs(x.m) <= 24 ->
            IF x.m > 0 THEN Fin(Pow2(x.m), 0) ELSE Fin(1, -x.m)
      [] OTHER -> Unrepresented

\* an exception leaving a function
Raised(e) == [t |-> "raise", exc |-> e]
IsRaise(x) == "t" \in DOMAIN x /\ x.t = "raise"

\* int(round(x)): round half to even; round() of inf or nan raises
PyRound(x) ==
    CASE x.c \in {"inf", "-inf"} -> Raised("OverflowError")
      [] x.c = "nan" -> Raised("ValueError")
      [] x.c = "-0" -> PyInt(0)
      [] x.c = "fin" ->
            LET q == Pow2(x.e)
                lo == x.m \div q
                r == x.m % q
            IN  PyInt(IF 2 * r < q THEN lo
                      ELSE IF 2 * r > q THEN lo + 1
                      ELSE IF lo % 2 = 0 THEN lo ELSE lo + 1)
      [] OTHER -> Raised("Unrepresented")   \* no exact form to round: outside the model

IsDigits(s) == \A j \in DOMAIN s : s[j] \in 48..57

RECURSIVE DigitsVal(_)
DigitsVal(s) == IF s = <<>> THEN 0 ELSE 10 * DigitsVal(SubSeq(s, 1, Len(s) - 1)) + (s[Len(s)] - 48)

\* the position of the first ch in s, Len(s) + 1 when there is none
FirstIndex(s, ch) ==
    IF \E j \in DOMAIN s : s[j] = ch
    THEN CHOOSE j \in DOMAIN s : s[j] = ch /\ \A q \in 1..(j - 1) : s[q] # ch
    ELSE Len(s) + 1

\* the float written by s, a str without surrounding whitespace: optional
\* sign, then inf, infinity or nan in any case, or digits with at most one
\* point and a digit on one side of it.  A literal with an exponent or an
\* underscore is Unrepresented.
float_literal[s \in Seq(Int)] ==
    LET signed == s # <<>> /\ Head(s) \in {43, 45}
        neg == signed /\ Head(s) = 45
        body == IF signed THEN Tail(s) ELSE s
        dot == FirstIndex(body, 46)
        ip == SubSeq(body, 1, dot - 1)
        fp == SubSeq(body, dot + 1, Len(body))
        num == DigitsVal(ip \o fp)
        five == IntPow(5, Len(fp))
    IN  IF Lower(body) \in {t_inf, t_infinity} THEN SignedInf(neg)
        ELSE IF Lower(body) = t_nan THEN NaN
        ELSE IF IsDigits(ip) /\ IsDigits(fp) /\ Len(ip) + Len(fp) >= 1
        THEN (IF num = 0 THEN SignedZero(neg)
              ELSE IF num % five = 0
              THEN Fin((IF neg THEN -1 ELSE 1) * (num \div five), Len(fp))
              ELSE Unrepresented)
        ELSE IF body # <<>> /\ (\E j \in DOMAIN body : body[j] \in {69, 95, 101})
                /\ \A j \in DOMAIN body : body[j] \in (48..57) \cup {43, 45, 46, 69, 95, 101}
        THEN Unrepresented
        ELSE Raised("ValueError")

\* float(t) for a str t
FloatOf(t) == float_literal[Strip(t)]

str_to_float_maybe_unit(s) ==
    LET t == Strip(s)
    IN  IF \E j \in DOMAIN t : t[j] = 91
        THEN FloatOf(Strip(SubSeq(t, 1, FirstIndex(t, 91) - 1)))
        ELSE FloatOf(t)

\* the first of keys that is in params, parsed; KeyError when none is
RECURSIVE get_any(_, _)
get_any(ps, keys) ==
    IF keys = <<>> THEN Raised("KeyError")
    ELSE IF DictHas(ps, Head(keys)) THEN str_to_float_maybe_unit(DictGet(ps, Head(keys)))
    ELSE get_any(ps, Tail(keys))

\* str_to_float_maybe_unit(params[k]) if k in params else None
side_target(ps, k) == IF DictHas(ps, k) THEN str_to_float_maybe_unit(DictGet(ps, k)) ELSE None

\* vN_target - (vN_target - v0) * (2.0 ** (-(n_abs / delx) ** M))
taper(v0, vN_target, n_abs, delx, M) ==
    FSub[vN_target,
         FMul[FSub[vN_target, v0],
              FExp2[FNeg[FPow[FDiv[Fin(n_abs, 0), delx], M]]]]]

\* the taper applied at index 0 as at any other index
value_at_nocenter(v0, vN_left, vN_right, n, delx, M) ==
    taper(v0, IF n < 0 THEN vN_left ELSE vN_right, Abs(n), delx, M)

\* the taper applied to the signed index
value_at_signed(v0, vN_left, vN_right, n, delx, M) ==
    IF n = 0 THEN v0
    ELSE taper(v0, IF n < 0 THEN vN_left ELSE vN_right, n, delx, M)

\* v0 if n == 0 else taper(v0, vN_left if n < 0 else vN_right, abs(n))
value_at(v0, vN_left, vN_right, n, delx, M) ==
    IF n = 0 THEN v0
    ELSE taper(v0, IF n < 0 THEN vN_left ELSE vN_right, Abs(n), delx, M)

N_keys == <<k_n_ext, k_N, k_n, k_N_unitcell>>
dN_keys == <<k_d17, k_dN, k_d_ext>>
hN_keys == <<k_h17, k_hN, k_h_ext>>
delx_keys == <<k_delx, k_delta_x, k_dx>>
M_keys == <<k_M, k_m>>

\* lines 56-75: what each statement evaluates to, in program order:
\* N, d0, h0, the four side-specific targets (None when the key is absent),
\* the generic dN and hN (None when not looked up), delx, M
resolved(ps) ==
    LET Nf == get_any(ps, N_keys)
        dN_left == side_target(ps, k_d17_mir)
        dN_right == side_target(ps, k_d17_wg)
        hN_left == side_target(ps, k_h17_mir)
        hN_right == side_target(ps, k_h17_wg)
    IN  << IF IsRaise(Nf) THEN Nf ELSE PyRound(Nf),
           get_any(ps, <<k_d0>>),
           get_any(ps, <<k_h0>>),
           dN_left, dN_right, hN_left, hN_right,
           IF dN_left = None \/ dN_right = None THEN get_any(ps, dN_keys) ELSE None,
           IF hN_left = None \/ hN_right = None THEN get_any(ps, hN_keys) ELSE None,
           get_any(ps, delx_keys),
           get_any(ps, M_keys) >>

\* the DataFrame returned, as its rows in order, or the exception raised:
\* the first one in program order
compute_profile(ps) ==
    LET frame[st \in {resolved(ps)}] ==
            LET N == st[1].n
                d0 == st[2]
                h0 == st[3]
                dN_left == IF st[4] = None THEN st[8] ELSE st[4]
                dN_right == IF st[5] = None THEN st[8] ELSE st[5]
                hN_left == IF st[6] = None THEN st[9] ELSE st[6]
                hN_right == IF st[7] = None THEN st[9] ELSE st[7]
                delx == st[10]
                M == st[11]
                idx == [j \in 1..(IF N >= 0 THEN 2 * N + 1 ELSE 0) |-> j - N - 1]
            IN  IF \E j \in DOMAIN st : IsRaise(st[j])
                THEN st[CHOOSE j \in DOMAIN st :
                           IsRaise(st[j]) /\ \A q \in 1..(j - 1) : ~IsRaise(st[q])]
                ELSE [t |-> "DataFrame",
                      rows |-> [j \in DOMAIN idx |->
                                  [index |-> idx[j],
                                   d |-> value_at(d0, dN_left, dN_right, idx[j], delx, M),
                                   h |-> value_at(h0, hN_left, hN_right, idx[j], delx, M)]]]
    IN  frame[resolved(ps)]

(***************************************************************************)
(* compute_profile applied once to a dict drawn from the values below.     *)
(***************************************************************************)
x_10 == <<49, 48>>                                          \* "10"
x_3nm == <<51, 91, 110, 109, 93>>                           \* "3[nm]"
x_4 == <<52>>                                               \* "4"
x_4h_um == <<32, 52, 46, 53, 32, 91, 117, 109, 93>>         \* " 4.5 [um]"
x_bad == <<120>>                                            \* "x"
x_30 == <<51, 48>>                                          \* "30"
x_20 == <<50, 48>>                                          \* "20"
x_6 == <<54>>                                               \* "6"
x_8 == <<56>>                                               \* "8"
x_1 == <<49>>                                               \* "1"
x_2 == <<50>>                                               \* "2"
x_0 == <<48>>                                               \* "0"
x_m0 == <<45, 48>>                                          \* "-0"
x_m1 == <<45, 49>>                                          \* "-1"
x_1h == <<49, 46, 53>>                                      \* "1.5"

\* the choice of leaving a key out of the dict; no str is this value
Absent == <<-1>>

Entry(k, v) == IF v = Absent THEN <<>> ELSE <<[k |-> k, v |-> v]>>

ProfileInit ==
    /\ args = NoArgs
    /\ mph_avail = FALSE
    /\ selected = <<>>
    /\ i = 1
    /\ diffs = <<>>
    /\ client_models = {}
    /\ calls = <<>>
    /\ stdout = <<>>
    /\ result = "running"
    /\ fails = 0
    /\ model_kind = <<>>
    /\ final_json = <<>>
    /\ base_params = <<>>
    /\ planned = <<>>
    /\ model = NoModel
    /\ profile = <<>>
    /\ pc = "c_start"
    /\ \E n_ext \in {Absent, x_1h, x_m1} \cup {Digits(n) : n \in 0..MaxN},
          N \in {Absent, x_1},
          d0 \in {x_10, x_3nm},
          h0 \in {x_4, x_4h_um, x_bad},
          d17_mir \in {Absent, x_30},
          d17_wg \in {Absent, x_20},
          d17 \in {Absent, x_20, x_10},
          h17_mir \in {Absent, x_6},
          h17 \in {Absent, x_8},
          delx \in {Absent, x_1, x_2, x_0, x_m0},
          M \in {Absent, x_1, x_2, x_m1} :
         params = Entry(k_n_ext, n_ext) \o Entry(k_N, N) \o Entry(k_d0, d0)
                     \o Entry(k_h0, h0) \o Entry(k_d17_mir, d17_mir)
                     \o Entry(k_d17_wg, d17_wg) \o Entry(k_d17, d17)
                     \o Entry(k_h17_mir, h17_mir) \o Entry(k_h17, h17)
                     \o Entry(k_delx, delx) \o Entry(k_M, M)

\* prof = compute_profile(modified)
ComputeProfile ==
    /\ pc = "c_start"
    /\ profile' = compute_profile(params)
    /\ pc' = IF IsRaise(profile') THEN "c_raised" ELSE "c_returned"
    /\ UNCHANGED <<params, args, mph_avail, final_json, base_params, selected, i, planned, model,
                   diffs, client_models, calls, stdout, result, fails, model_kind>>

ProfileNext == ComputeProfile

SpecProfile == ProfileInit /\ [][ProfileNext]_vars

(***************************************************************************)
(* Properties of compute_profile.                                          *)
(***************************************************************************)
Returned == pc = "c_returned"
Rows == profile.rows
\* the half-width int(round(...)) of a profile that was returned
ResolvedN == PyRound(get_any(params, N_keys)).n
Resolved(keys) == get_any(params, keys)
RowAt(n) == Rows[ResolvedN + 1 + n]
SideKeys == {k_d17_mir, k_d17_wg, k_h17_mir, k_h17_wg}
\* x == y for two floats: nan equals nothing
FloatEq(x, y) == x = y /\ x # NaN
FiniteInputs ==
    \A k \in DictKeys(params) : IsFinite(str_to_float_maybe_unit(DictGet(params, k)))

\* C11: a returned profile with half-width N >= 0 has exactly 2N+1 rows, the
\* row at position j has index j - N - 1 (so the indices are -N..N ascending),
\* and the row of index 0 holds exactly the parsed d0 and h0, whatever delx,
\* M and the boundary targets are.
C11_RowsAndCenter ==
    (Returned /\ ResolvedN >= 0) =>
        /\ Len(Rows) = 2 * ResolvedN + 1
        /\ \A j \in DOMAIN Rows : Rows[j].index = j - ResolvedN - 1
        /\ RowAt(0) = [index |-> 0, d |-> Resolved(<<k_d0>>), h |-> Resolved(<<k_h0>>)]

\* a returned profile of half-width 2 with zero delx and negative M, whose
\* centre row is (0, 3.0, 4.5) and whose outer rows were computed
C11_Witness ==
    /\ Returned
    /\ ResolvedN = 2
    /\ IsZero(Resolved(delx_keys))
    /\ IsNegative(Resolved(M_keys))
    /\ Len(Rows) = 5
    /\ RowAt(0) = [index |-> 0, d |-> Fin(3, 0), h |-> Fin(9, 1)]
    /\ RowAt(2).d.c = "fin"

\* C12: when the dict has none of d17_mir, d17_wg, h17_mir, h17_wg, the rows
\* of index -n and +n of a returned profile hold the same d and the same h
\* for every n in 1..N; with finite inputs and delx > 0 these are numbers
\* (not nan), so they compare equal.
C12_GenericSymmetric ==
    (Returned /\ DictKeys(params) \cap SideKeys = {}) =>
        \A n \in 1..ResolvedN :
            /\ RowAt(-n).d = RowAt(n).d
            /\ RowAt(-n).h = RowAt(n).h
            /\ (FiniteInputs /\ ~IsZero(Resolved(delx_keys)) /\ ~IsNegative(Resolved(delx_keys)))
                  => /\ FloatEq(RowAt(-n).d, RowAt(n).d)
                     /\ FloatEq(RowAt(-n).h, RowAt(n).h)

\* the scenario n_ext = 2, d0 = 10, h0 = 4, d17 = 20, h17 = 8, delx = 1,
\* M = 2 with no side-specific key: d is 19.375, 15, 10, 15, 19.375
C12_Witness ==
    /\ Returned
    /\ DictKeys(params) \cap SideKeys = {}
    /\ ResolvedN = 2
    /\ Resolved(delx_keys) = Fin(1, 0)
    /\ Resolved(M_keys) = Fin(2, 0)
    /\ RowAt(-2).d = Fin(155, 3) /\ RowAt(2).d = Fin(155, 3)
    /\ RowAt(-1).d = Fin(15, 0) /\ RowAt(1).d = Fin(15, 0)
    /\ RowAt(0).d = Fin(10, 0)
    /\ RowAt(-1).h = Fin(6, 0) /\ RowAt(1).h = Fin(6, 0)

\* C13: with delx = 0 and half-width N >= 1 compute_profile never returns a
\* profile.
C13_ZeroDelxNeverReturns ==
    (~IsRaise(Resolved(delx_keys)) /\ IsZero(Resolved(delx_keys))
       /\ ~IsRaise(Resolved(N_keys)) /\ ResolvedN >= 1)
        => ~Returned

====
